---- MODULE Spec2Model ----
(***************************************************************************)
(* Model of package isom (isom.go): the MPEG-4 audio config bitfield       *)
(* codec, the ADTS header reader and the MP4 descriptor (tag, length,      *)
(* payload) codec with its three-level elementary stream descriptor.       *)
(*                                                                         *)
(* The package is a library of synchronous calls over byte streams.  The   *)
(* state is one byte stream (a bytes.Buffer a writer call has filled, or   *)
(* bytes the container layer supplies), a record of how the stream was     *)
(* produced, and the outcome of the last reader call on the stream.        *)
(* Every reader call wraps the stream in a fresh bytes.Reader at offset 0, *)
(* and every writer call writes into a fresh, empty bytes.Buffer.          *)
(***************************************************************************)
EXTENDS Integers, Sequences, FiniteSets, TLC

VARIABLES stream, origin, call

vars == <<stream, origin, call>>

----------------------------------------------------------------------------
(* Bounds of the environment *)

\* payload fill patterns for writeDesc: byte k of a payload is (k * fill) % 256
MaxFill == 2
\* junk bytes that may follow a written message in the stream
MaxTrailing == 1
\* the container layer damages only streams of at most this many bytes
MaxDamageLen == 32

----------------------------------------------------------------------------
(* Constants of isom.go *)

MP4ESDescrTag == 3
MP4DecConfigDescrTag == 4
MP4DecSpecificDescrTag == 5

\* The const block starts at iota = 0 (AOT_AAC_MAIN = 1 + iota).  AOT_ESCAPE is
\* its 28th ConstSpec (iota = 27) and repeats the last expression, 19 + iota,
\* given with AOT_ER_AAC_LTP.
AOT_ESCAPE == 19 + 27

sampleRateTable ==
    <<96000, 88200, 64000, 48000, 44100, 32000,
      24000, 22050, 16000, 12000, 11025, 8000, 7350>>

chanConfigTable == <<0, 1, 2, 3, 4, 5, 6, 8>>

ErrNil == "nil"
ErrEOF == "EOF"
ErrESDescr == "MP4ESDescrTag not found"
ErrDecSpecific == "MP4DecSpecificDescrTag not found"

----------------------------------------------------------------------------
(* Arithmetic helpers *)

Min(a, b) == IF a < b THEN a ELSE b

RECURSIVE Pow2(_)
Pow2(k) == IF k = 0 THEN 1 ELSE 2 * Pow2(k - 1)

\* bit p (0 = least significant) of v; v is below 2^31
Bit(v, p) == IF p >= 31 THEN 0 ELSE (v \div Pow2(p)) % 2

Zeros(k) == [j \in 1..k |-> 0]

----------------------------------------------------------------------------
(* Evaluation order.  Go evaluates a call once and keeps its results in    *)
(* variables; Bind(x, F) does the same: the value of x, computed once, is   *)
(* handed to F.                                                            *)

Bind(x, F(_)) == CHOOSE r \in {F(v) : v \in {x}} : TRUE

----------------------------------------------------------------------------
(* github.com/nareix/bits: MSB-first bit reader over an io.Reader.  The    *)
(* io.Reader is a bytes.Reader: the byte sequence s and the offset i.  A   *)
(* bits.Reader br is [i, n, bits]: the offset of the bytes.Reader, the     *)
(* number of buffered bits and their value.                                *)

NewBitsReader(i) == [i |-> i, n |-> 0, bits |-> 0]

RECURSIVE BEValue(_, _, _)
\* big-endian value of the k bytes of s that follow offset i
BEValue(s, i, k) ==
    IF k = 0 THEN 0 ELSE BEValue(s, i, k - 1) * 256 + s[i + k]

\* the k high bits of the buffer of br leave it: [err, v, br]
TakeBits(br, k) ==
    Bind(br, LAMBDA b :
        [err |-> ErrNil, v |-> b.bits \div Pow2(b.n - k),
         br |-> [b EXCEPT !.n = b.n - k, !.bits = b.bits % Pow2(b.n - k)]])

\* Reader.ReadBits(k): [err, v, br].  When fewer than k bits are buffered the
\* missing whole bytes are read first; a read that returns fewer is an error.
ReadBits(s, br, k) ==
    Bind(br, LAMBDA b :
        LET want == (k - b.n + 7) \div 8
            got  == Min(want, Len(s) - b.i)
        IN  IF b.n >= k THEN TakeBits(b, k)
            ELSE IF got < want
            THEN [err |-> ErrEOF, v |-> 0, br |-> [b EXCEPT !.i = b.i + got]]
            ELSE TakeBits([i |-> b.i + got, n |-> b.n + got * 8,
                           bits |-> b.bits * Pow2(8 * got) + BEValue(s, b.i, got)],
                          k))

\* bits.ReadUIntBE(r, n) for n in {8, 16, 24}: [err, v, i]
ReadUIntBE(s, i, n) ==
    Bind(ReadBits(s, NewBitsReader(i), n), LAMBDA r :
        [err |-> r.err, v |-> r.v, i |-> r.br.i])

\* bits.ReadUIntBE(r, n) where the caller discards the value: [err, i]
SkipUIntBE(s, i, n) ==
    Bind(Min(n \div 8, Len(s) - i), LAMBDA got :
        [err |-> IF got < n \div 8 THEN ErrEOF ELSE ErrNil, i |-> i + got])

\* bytes.Reader.Read(p) with len(p) = k: [err, n, p, i]
ReaderRead(s, i, k) ==
    Bind(Min(k, Len(s) - i), LAMBDA n :
        IF i >= Len(s)
        THEN [err |-> ErrEOF, n |-> 0, p |-> Zeros(k), i |-> i]
        ELSE [err |-> ErrNil, n |-> n,
              p |-> SubSeq(s, i + 1, i + n) \o Zeros(k - n),
              i |-> i + n])

----------------------------------------------------------------------------
(* github.com/nareix/bits: MSB-first bit writer.  A bits.Writer is the     *)
(* sequence of the n bits written so far (the low n bits of its 64-bit     *)
(* accumulator); bits above the low n are never flushed.                   *)

NewBitsWriter == <<>>

\* Writer.WriteBits(v, k): the accumulator becomes (bits << k) | v.  The value
\* is not masked to k bits: a bit of v above bit k-1 is or-ed into the bits
\* written before, or dropped when there are none at that place.
WriteBits(bw, v, k) ==
    Bind(bw, LAMBDA w :
        [j \in 1..(Len(w) + k) |->
            IF j <= Len(w)
            THEN (IF w[j] = 1 \/ Bit(v, Len(w) + k - j) = 1 THEN 1 ELSE 0)
            ELSE Bit(v, Len(w) + k - j)])

\* Writer.FlushBits(): the bits, zero-padded to a byte boundary, as bytes
FlushBits(bw) ==
    Bind(bw \o Zeros((8 - (Len(bw) % 8)) % 8), LAMBDA w :
        [b \in 1..(Len(w) \div 8) |->
            w[8*b - 7] * 128 + w[8*b - 6] * 64 + w[8*b - 5] * 32
          + w[8*b - 4] * 16 + w[8*b - 3] * 8 + w[8*b - 2] * 4
          + w[8*b - 1] * 2 + w[8*b]])

\* bits.WriteUIntBE(w, val, n) into a bytes.Buffer: the n/8 low bytes of val
WriteUIntBE(val, n) ==
    [j \in 1..(n \div 8) |-> (val \div Pow2(8 * ((n \div 8) - j))) % 256]

----------------------------------------------------------------------------
(* Bitfield config codec *)

ZeroConfig ==
    [SampleRate |-> 0, ChannelCount |-> 0, ObjectType |-> 0,
     SampleRateIndex |-> 0, ChannelConfig |-> 0]

\* readObjectType(r): [err, v, br]
readObjectType(s, br) ==
    Bind(ReadBits(s, br, 5), LAMBDA r5 :
        IF r5.err # ErrNil THEN r5
        ELSE IF r5.v = AOT_ESCAPE
        THEN Bind(ReadBits(s, r5.br, 6), LAMBDA r6 :
                IF r6.err # ErrNil THEN [r6 EXCEPT !.v = r5.v]
                ELSE [r6 EXCEPT !.v = 32 + r6.v])
        ELSE r5)

\* writeObjectType(w, objectType): the bits.Writer after the call
writeObjectType(bw, objectType) ==
    IF objectType >= 32
    THEN WriteBits(WriteBits(bw, AOT_ESCAPE, 5), objectType - 32, 6)
    ELSE WriteBits(bw, objectType, 5)

\* readSampleRateIndex(r): [err, v, br]
readSampleRateIndex(s, br) ==
    Bind(ReadBits(s, br, 4), LAMBDA r4 :
        IF r4.err # ErrNil THEN r4
        ELSE IF r4.v = 15 THEN ReadBits(s, r4.br, 24)
        ELSE r4)

\* writeSampleRateIndex(w, index): the bits.Writer after the call
writeSampleRateIndex(bw, index) ==
    IF index >= 15
    THEN WriteBits(WriteBits(bw, 15, 4), index, 24)
    ELSE WriteBits(bw, index, 4)

\* a table search that counts positions from 1
TableSearchFromOne(table, value, index) ==
    LET hits == {i \in 1..Len(table) : table[i] = value}
    IN  IF hits = {} THEN index
        ELSE CHOOSE i \in hits : \A h \in hits : h <= i

\* the loops of WriteMPEG4AudioConfig over a table: the position (from 0) of
\* the last entry equal to value, or index when there is none
TableSearch(table, value, index) ==
    LET hits == {i \in 1..Len(table) : table[i] = value}
    IN  IF hits = {} THEN index
        ELSE (CHOOSE i \in hits : \A h \in hits : h <= i) - 1

\* ReadMPEG4AudioConfig(r) on a bytes.Reader at offset i: [err, config, i].
\* config is the named result: it keeps every field assigned before an error.
ReadMPEG4AudioConfig(s, i) ==
    Bind(readObjectType(s, NewBitsReader(i)), LAMBDA ot :
    Bind([ZeroConfig EXCEPT !.ObjectType = ot.v], LAMBDA c1 :
        IF ot.err # ErrNil THEN [err |-> ot.err, config |-> c1, i |-> ot.br.i]
        ELSE
    Bind(readSampleRateIndex(s, ot.br), LAMBDA sr :
    Bind([c1 EXCEPT !.SampleRateIndex = sr.v], LAMBDA c2 :
        IF sr.err # ErrNil THEN [err |-> sr.err, config |-> c2, i |-> sr.br.i]
        ELSE
    Bind(ReadBits(s, sr.br, 4), LAMBDA cc :
        [err |-> cc.err, config |-> [c2 EXCEPT !.ChannelConfig = cc.v],
         i |-> cc.br.i])))))

\* WriteMPEG4AudioConfig(w, config) into a bytes.Buffer: the bytes written
WriteMPEG4AudioConfig(config) ==
    LET bw1   == writeObjectType(NewBitsWriter, config.ObjectType)
        index == IF config.SampleRateIndex = 0
                 THEN TableSearch(sampleRateTable, config.SampleRate, 0)
                 ELSE config.SampleRateIndex
        bw2   == writeSampleRateIndex(bw1, index)
        chan  == IF config.ChannelConfig = 0
                 THEN TableSearch(chanConfigTable, config.ChannelCount, 0)
                 ELSE config.ChannelConfig
        bw3   == WriteBits(bw2, chan, 4)
    IN  FlushBits(bw3)

----------------------------------------------------------------------------
(* ADTS header *)

\* a header reader that takes the private bit for the first channel bit
ReadADTSHeaderNoPrivateBit(data) ==
    Bind(ReadBits(data, NewBitsReader(0), 16), LAMBDA a :
    Bind(ReadBits(data, a.br, 2), LAMBDA e :
    Bind(ReadBits(data, e.br, 4), LAMBDA f :
    Bind(ReadBits(data, f.br, 3), LAMBDA h :
    Bind(ReadBits(data, h.br, 4), LAMBDA i :
    Bind(ReadBits(data, i.br, 13), LAMBDA m :
        [objectType |-> e.v + 1, sampleRateIndex |-> f.v,
         chanConfig |-> h.v, frameLength |-> m.v]))))))

\* ReadADTSHeader(data): every error of ReadBits is ignored, a failed read
\* leaving 0 in the field.  The two reads after the frame length (buffer
\* fullness, number of frames) change only the local reader.
ReadADTSHeader(data) ==
    Bind(ReadBits(data, NewBitsReader(0), 12), LAMBDA a :
    Bind(ReadBits(data, a.br, 1), LAMBDA b :
    Bind(ReadBits(data, b.br, 2), LAMBDA c :
    Bind(ReadBits(data, c.br, 1), LAMBDA d :
    Bind(ReadBits(data, d.br, 2), LAMBDA e :
    Bind(ReadBits(data, e.br, 4), LAMBDA f :
    Bind(ReadBits(data, f.br, 1), LAMBDA g :
    Bind(ReadBits(data, g.br, 3), LAMBDA h :
    Bind(ReadBits(data, h.br, 1), LAMBDA i :
    Bind(ReadBits(data, i.br, 1), LAMBDA j :
    Bind(ReadBits(data, j.br, 1), LAMBDA k :
    Bind(ReadBits(data, k.br, 1), LAMBDA l :
    Bind(ReadBits(data, l.br, 13), LAMBDA m :
        [objectType |-> e.v + 1, sampleRateIndex |-> f.v,
         chanConfig |-> h.v, frameLength |-> m.v])))))))))))))

----------------------------------------------------------------------------
(* Descriptor codec *)

RECURSIVE readDescLength(_, _, _, _)
\* the length loop of readDesc with k iterations left: [err, length, i]
readDescLength(s, i, k, length) ==
    IF k = 0 THEN [err |-> ErrNil, length |-> length, i |-> i]
    ELSE Bind(ReadUIntBE(s, i, 8), LAMBDA c :
            IF c.err # ErrNil THEN [err |-> c.err, length |-> length, i |-> c.i]
            ELSE IF c.v < 128
            THEN [err |-> ErrNil, length |-> length * 128 + (c.v % 128), i |-> c.i]
            ELSE readDescLength(s, c.i, k - 1, length * 128 + (c.v % 128)))

\* readDesc(r) on a bytes.Reader at offset i: [err, tag, data, i]
readDesc(s, i) ==
    Bind(ReadUIntBE(s, i, 8), LAMBDA t :
        IF t.err # ErrNil
        THEN [err |-> t.err, tag |-> t.v, data |-> <<>>, i |-> t.i]
        ELSE
    Bind(readDescLength(s, t.i, 4, 0), LAMBDA l :
        IF l.err # ErrNil
        THEN [err |-> l.err, tag |-> t.v, data |-> <<>>, i |-> l.i]
        ELSE
    Bind(ReaderRead(s, l.i, l.length), LAMBDA p :
        [err |-> p.err, tag |-> t.v, data |-> p.p, i |-> p.i])))

RECURSIVE writeDescLength(_)
\* the length loop of writeDesc: the bytes it writes
writeDescLength(length) ==
    IF length > 0
    THEN <<(length % 128) + (IF length >= 128 THEN 128 ELSE 0)>>
         \o writeDescLength(length \div 128)
    ELSE <<>>

\* writeDesc(w, tag, data) into a bytes.Buffer: the bytes written
writeDesc(tag, data) ==
    Bind(data, LAMBDA d : WriteUIntBE(tag, 8) \o writeDescLength(Len(d)) \o d)

\* readESDesc(r) on a bytes.Reader at offset i: [err, i]
readESDesc(s, i) ==
    Bind(SkipUIntBE(s, i, 16), LAMBDA id :
        IF id.err # ErrNil THEN id
        ELSE
    Bind(ReadUIntBE(s, id.i, 8), LAMBDA flags :
        IF flags.err # ErrNil THEN [err |-> flags.err, i |-> flags.i]
        ELSE
    Bind(IF (flags.v \div 128) % 2 = 1
         THEN SkipUIntBE(s, flags.i, 16)
         ELSE [err |-> ErrNil, i |-> flags.i], LAMBDA dep :
        IF dep.err # ErrNil THEN dep
        ELSE
    Bind(IF (flags.v \div 64) % 2 = 1
         THEN Bind(ReadUIntBE(s, dep.i, 8), LAMBDA ulen :
                IF ulen.err # ErrNil THEN [err |-> ulen.err, i |-> ulen.i]
                ELSE IF Len(s) - ulen.i < ulen.v
                THEN [err |-> ErrEOF, i |-> Len(s)]
                ELSE [err |-> ErrNil, i |-> ulen.i + ulen.v])
         ELSE [err |-> ErrNil, i |-> dep.i], LAMBDA url :
        IF url.err # ErrNil THEN url
        ELSE IF (flags.v \div 32) % 2 = 1
        THEN SkipUIntBE(s, url.i, 16)
        ELSE [err |-> ErrNil, i |-> url.i]))))

\* writeESDesc(w): ES_ID 0 and flags 0
writeESDesc == WriteUIntBE(0, 16) \o WriteUIntBE(0, 8)

\* readDecConfDesc(r) on a bytes.Reader at offset i: [err, decConfig, i]
readDecConfDesc(s, i) ==
    LET fail(r) == [err |-> r.err, decConfig |-> <<>>, i |-> r.i]
    IN
    Bind(SkipUIntBE(s, i, 8), LAMBDA objectId :
        IF objectId.err # ErrNil THEN fail(objectId) ELSE
    Bind(SkipUIntBE(s, objectId.i, 8), LAMBDA streamType :
        IF streamType.err # ErrNil THEN fail(streamType) ELSE
    Bind(SkipUIntBE(s, streamType.i, 24), LAMBDA bufSize :
        IF bufSize.err # ErrNil THEN fail(bufSize) ELSE
    Bind(SkipUIntBE(s, bufSize.i, 32), LAMBDA maxBitrate :
        IF maxBitrate.err # ErrNil THEN fail(maxBitrate) ELSE
    Bind(SkipUIntBE(s, maxBitrate.i, 32), LAMBDA avgBitrate :
        IF avgBitrate.err # ErrNil THEN fail(avgBitrate) ELSE
    Bind(readDesc(s, avgBitrate.i), LAMBDA d :
        IF d.err # ErrNil THEN fail(d)
        ELSE IF d.tag # MP4DecSpecificDescrTag
        THEN [err |-> ErrDecSpecific, decConfig |-> <<>>, i |-> d.i]
        ELSE [err |-> ErrNil, decConfig |-> d.data, i |-> d.i]))))))

\* writeDecConfDesc(w, objectId, streamType, decConfig): the bytes written
writeDecConfDesc(objectId, streamType, decConfig) ==
    WriteUIntBE(objectId, 8) \o WriteUIntBE(streamType, 8)
    \o WriteUIntBE(0, 24) \o WriteUIntBE(0, 32) \o WriteUIntBE(0, 32)
    \o writeDesc(MP4DecSpecificDescrTag, decConfig)

\* a reader of the nested descriptor that does not check the outer tag
ReadElemStreamDescAnyOuterTag(s, i) ==
    Bind(readDesc(s, i), LAMBDA d1 :
        LET fail(e) == [err |-> e, decConfig |-> <<>>, i |-> d1.i]
        IN  IF d1.err # ErrNil THEN fail(d1.err)
            ELSE
    Bind(readESDesc(d1.data, 0), LAMBDA es :
            IF es.err # ErrNil THEN fail(es.err)
            ELSE
    Bind(readDesc(d1.data, es.i), LAMBDA d2 :
            IF d2.err # ErrNil THEN fail(d2.err)
            ELSE IF d2.tag # MP4DecConfigDescrTag THEN fail(ErrDecSpecific)
            ELSE
    Bind(readDecConfDesc(d2.data, 0), LAMBDA dc :
            [err |-> dc.err, decConfig |-> dc.decConfig, i |-> d1.i]))))

\* ReadElemStreamDesc(r) on a bytes.Reader at offset i: [err, decConfig, i],
\* i the offset of r after the call.  The nested levels are read from
\* bytes.Readers over the payloads, not from r.
ReadElemStreamDesc(s, i) ==
    Bind(readDesc(s, i), LAMBDA d1 :
        LET fail(e) == [err |-> e, decConfig |-> <<>>, i |-> d1.i]
        IN  IF d1.err # ErrNil THEN fail(d1.err)
            ELSE IF d1.tag # MP4ESDescrTag THEN fail(ErrESDescr)
            ELSE
    Bind(readESDesc(d1.data, 0), LAMBDA es :
            IF es.err # ErrNil THEN fail(es.err)
            ELSE
    Bind(readDesc(d1.data, es.i), LAMBDA d2 :
            IF d2.err # ErrNil THEN fail(d2.err)
            ELSE IF d2.tag # MP4DecConfigDescrTag THEN fail(ErrDecSpecific)
            ELSE
    Bind(readDecConfDesc(d2.data, 0), LAMBDA dc :
            [err |-> dc.err, decConfig |-> dc.decConfig, i |-> d1.i]))))

\* ReadElemStreamDescAAC(r): [err, config, i]
ReadElemStreamDescAAC(s, i) ==
    Bind(ReadElemStreamDesc(s, i), LAMBDA d :
        IF d.err # ErrNil THEN [err |-> d.err, config |-> ZeroConfig, i |-> d.i]
        ELSE
    Bind(ReadMPEG4AudioConfig(d.decConfig, 0), LAMBDA c :
        [err |-> c.err, config |-> c.config, i |-> d.i]))

\* WriteElemStreamDescAAC(w, config) into a bytes.Buffer: the bytes written
WriteElemStreamDescAAC(config) ==
    LET data1 == WriteMPEG4AudioConfig(config)
        data2 == writeDecConfDesc(64, 21, data1)
        data3 == writeDesc(MP4DecConfigDescrTag, data2)
        data4 == writeESDesc \o data3
    IN  writeDesc(MP4ESDescrTag, data4)

----------------------------------------------------------------------------
(* Inputs of the calls *)

Config(ot, sri, cc, sr, cnt) ==
    [SampleRate |-> sr, ChannelCount |-> cnt, ObjectType |-> ot,
     SampleRateIndex |-> sri, ChannelConfig |-> cc]

Range(f) == {f[x] : x \in DOMAIN f}

\* configs given by their wire indices, the derived fields left zero
IndexConfigs ==
    {Config(ot, sri, cc, 0, 0) :
        ot \in {1, 2, 31, 32, 63},
        sri \in {0, 4, 14, 15, 16777215},
        cc \in {0, 2, 15}}

\* AAC LC configs given by sample rate and channel count, the indices left zero
ValueConfigs ==
    {Config(2, 0, 0, sr, cnt) :
        sr \in Range(sampleRateTable) \cup {0, 12345},
        cnt \in Range(chanConfigTable) \cup {7}}

\* configs that give both representations
MixedConfigs ==
    {Config(2, sri, cc, sr, cnt) :
        sri \in {0, 4}, cc \in {0, 2}, sr \in {44100, 48000}, cnt \in {1, 2}}

Configs == IndexConfigs \cup ValueConfigs \cup MixedConfigs

Tags == {0, 3, 5, 255}

PayloadLens == {0, 1, 2, 127, 128, 129, 255, 256}

Payload(len, fill) == [k \in 1..len |-> (k * fill) % 256]

DamageBytes == {0, 127}

\* a 7-byte ADTS header with the given fields, every other bit equal to x
ADTSHeader(profile, sfi, chan, fl, x) ==
    << 255 * x,
       255 * x,
       profile * 64 + sfi * 4 + x * 2 + (chan \div 4),
       (chan % 4) * 64 + x * 60 + (fl \div 2048),
       (fl \div 8) % 256,
       (fl % 8) * 32 + x * 31,
       255 * x >>

FrameLengths == {0, 15, 2048, 8191}

----------------------------------------------------------------------------
(* State machine *)

NoCall ==
    [fn |-> "none", err |-> ErrNil, config |-> ZeroConfig, tag |-> 0,
     data |-> <<>>, i |-> 0,
     adts |-> [objectType |-> 0, sampleRateIndex |-> 0,
               chanConfig |-> 0, frameLength |-> 0]]

NoOrigin ==
    [fn |-> "none", config |-> ZeroConfig, tag |-> 0, data |-> <<>>,
     trailing |-> 0, damaged |-> FALSE]

Init ==
    /\ stream = <<>>
    /\ origin = NoOrigin
    /\ call = NoCall

\* WriteMPEG4AudioConfig(w, config) with w a fresh bytes.Buffer
DoWriteMPEG4AudioConfig ==
    \E config \in Configs :
        /\ origin.fn = "none"
        /\ stream' = WriteMPEG4AudioConfig(config)
        /\ origin' = [NoOrigin EXCEPT !.fn = "WriteMPEG4AudioConfig",
                                      !.config = config]
        /\ call' = NoCall

\* WriteElemStreamDescAAC(w, config) with w a fresh bytes.Buffer
DoWriteElemStreamDescAAC ==
    \E config \in Configs :
        /\ origin.fn = "none"
        /\ stream' = WriteElemStreamDescAAC(config)
        /\ origin' = [NoOrigin EXCEPT !.fn = "WriteElemStreamDescAAC",
                                      !.config = config]
        /\ call' = NoCall

\* writeDesc(w, tag, data) with w a fresh bytes.Buffer
DoWriteDesc ==
    \E tag \in Tags, len \in PayloadLens, fill \in 1..MaxFill :
        /\ origin.fn = "none"
        /\ stream' = writeDesc(tag, Payload(len, fill))
        /\ origin' = [NoOrigin EXCEPT !.fn = "writeDesc", !.tag = tag,
                                      !.data = Payload(len, fill)]
        /\ call' = NoCall

\* the container layer supplies a 7-byte ADTS header
SupplyADTSHeader ==
    \E profile \in 0..3, sfi \in 0..15, chan \in 0..7,
       fl \in FrameLengths, x \in {0, 1} :
        /\ origin.fn = "none"
        /\ stream' = ADTSHeader(profile, sfi, chan, fl, x)
        /\ origin' = [NoOrigin EXCEPT !.fn = "container"]
        /\ call' = NoCall

\* the streams the container layer may hand over damaged: short, written from
\* wire indices or by writeDesc, and not damaged before
Damageable ==
    /\ origin.fn \in {"WriteMPEG4AudioConfig", "WriteElemStreamDescAAC", "writeDesc"}
    /\ origin.config \in IndexConfigs \cup {ZeroConfig}
    /\ ~origin.damaged
    /\ origin.trailing = 0
    /\ Len(stream) <= MaxDamageLen

\* the container layer hands over a written stream with one byte changed
Damage ==
    /\ Damageable
    /\ \E p \in 1..Len(stream), b \in DamageBytes :
        /\ stream[p] # b
        /\ stream' = [stream EXCEPT ![p] = b]
    /\ origin' = [origin EXCEPT !.damaged = TRUE]
    /\ call' = NoCall

\* the container layer hands over a written stream cut short
Truncate ==
    /\ Damageable
    /\ \E k \in 0..(Len(stream) - 1) : stream' = SubSeq(stream, 1, k)
    /\ origin' = [origin EXCEPT !.damaged = TRUE]
    /\ call' = NoCall

\* more bytes follow the message in the stream
AppendTrailing ==
    /\ origin.fn \in {"WriteMPEG4AudioConfig", "WriteElemStreamDescAAC", "writeDesc"}
    /\ origin.trailing < MaxTrailing
    /\ Len(stream) <= MaxDamageLen + MaxTrailing
    /\ stream' = Append(stream, 170)
    /\ origin' = [origin EXCEPT !.trailing = origin.trailing + 1]
    /\ call' = NoCall

\* the config reader is given streams that carry a config at their start
DoReadMPEG4AudioConfig ==
    /\ origin.fn = "WriteMPEG4AudioConfig"
    /\ \E r \in {ReadMPEG4AudioConfig(stream, 0)} :
        call' = [NoCall EXCEPT !.fn = "ReadMPEG4AudioConfig", !.err = r.err,
                      !.config = r.config, !.i = r.i]
    /\ UNCHANGED <<stream, origin>>

\* the descriptor readers are given streams that carry descriptors
DoReadDesc ==
    /\ origin.fn \in {"writeDesc", "WriteElemStreamDescAAC"}
    /\ \E r \in {readDesc(stream, 0)} :
        call' = [NoCall EXCEPT !.fn = "readDesc", !.err = r.err,
                      !.tag = r.tag, !.data = r.data, !.i = r.i]
    /\ UNCHANGED <<stream, origin>>

DoReadElemStreamDesc ==
    /\ origin.fn \in {"writeDesc", "WriteElemStreamDescAAC"}
    /\ \E r \in {ReadElemStreamDesc(stream, 0)} :
        call' = [NoCall EXCEPT !.fn = "ReadElemStreamDesc", !.err = r.err,
                      !.data = r.decConfig, !.i = r.i]
    /\ UNCHANGED <<stream, origin>>

DoReadElemStreamDescAAC ==
    /\ origin.fn \in {"writeDesc", "WriteElemStreamDescAAC"}
    /\ \E r \in {ReadElemStreamDescAAC(stream, 0)} :
        call' = [NoCall EXCEPT !.fn = "ReadElemStreamDescAAC", !.err = r.err,
                      !.config = r.config, !.i = r.i]
    /\ UNCHANGED <<stream, origin>>

\* the ADTS reader is given the headers the container layer supplies
DoReadADTSHeader ==
    /\ origin.fn = "container"
    /\ call' = [NoCall EXCEPT !.fn = "ReadADTSHeader",
                              !.adts = ReadADTSHeader(stream)]
    /\ UNCHANGED <<stream, origin>>

\* the buffers of the finished calls are dropped
Reset ==
    /\ call.fn # "none"
    /\ stream' = <<>>
    /\ origin' = NoOrigin
    /\ call' = NoCall

Next ==
    \/ DoWriteMPEG4AudioConfig
    \/ DoWriteElemStreamDescAAC
    \/ DoWriteDesc
    \/ SupplyADTSHeader
    \/ Damage
    \/ Truncate
    \/ AppendTrailing
    \/ DoReadMPEG4AudioConfig
    \/ DoReadDesc
    \/ DoReadElemStreamDesc
    \/ DoReadElemStreamDescAAC
    \/ DoReadADTSHeader
    \/ Reset

Spec == Init /\ [][Next]_vars

----------------------------------------------------------------------------
(* Properties *)

\* the stream is exactly what the writer call named by origin produced
Pristine(fn) == origin.fn = fn /\ ~origin.damaged /\ origin.trailing = 0

\* the derived fields of a config are unset or agree with its wire indices
ValidConfig(c) ==
    /\ c.ObjectType \in 1..63
    /\ c.SampleRateIndex \in 0..16777215
    /\ c.ChannelConfig \in 0..15
    /\ \/ c.SampleRate = 0
       \/ /\ c.SampleRateIndex < Len(sampleRateTable)
          /\ c.SampleRate = sampleRateTable[c.SampleRateIndex + 1]
    /\ \/ c.ChannelCount = 0
       \/ /\ c.ChannelConfig < Len(chanConfigTable)
          /\ c.ChannelCount = chanConfigTable[c.ChannelConfig + 1]

\* C1: every valid config with ObjectType in 1..63, SampleRateIndex in 0..15
\* or a 24-bit value, and ChannelConfig in 0..15, written by
\* WriteMPEG4AudioConfig and read back by ReadMPEG4AudioConfig, is read
\* without error and with the same ObjectType, SampleRateIndex and
\* ChannelConfig.
C1_ConfigRoundTrip ==
    (call.fn = "ReadMPEG4AudioConfig" /\ Pristine("WriteMPEG4AudioConfig")
        /\ ValidConfig(origin.config))
    => /\ call.err = ErrNil
       /\ call.config.ObjectType = origin.config.ObjectType
       /\ call.config.SampleRateIndex = origin.config.SampleRateIndex
       /\ call.config.ChannelConfig = origin.config.ChannelConfig

\* the first five bits of a byte stream and the six bits after them
First5(s) == s[1] \div 8
Next6(s) == (s[1] % 8) * 8 + (s[2] \div 32)

\* C2: the escape sentinel of the object type is 31 on both sides: the writer
\* emits ObjectType 31 as the 5-bit value 31 with nothing before the 4-bit
\* sample-rate index, and ObjectType t in 32..63 as the 5-bit value 31 and the
\* 6-bit value t - 32; the reader that reads the 5-bit value 31 reads 6 more
\* bits and returns 32 plus their value.
C2_EscapeSentinel ==
    /\ (Pristine("WriteMPEG4AudioConfig") /\ origin.config.ObjectType = 31
            /\ origin.config.SampleRateIndex \in 1..14)
       => /\ First5(stream) = 31
          /\ (stream[1] % 8) * 2 + (stream[2] \div 128) = origin.config.SampleRateIndex
    /\ (Pristine("WriteMPEG4AudioConfig") /\ origin.config.ObjectType \in 32..63)
       => /\ First5(stream) = 31
          /\ Next6(stream) = origin.config.ObjectType - 32
    /\ (call.fn = "ReadMPEG4AudioConfig" /\ Len(stream) >= 2 /\ First5(stream) = 31)
       => call.config.ObjectType = 32 + Next6(stream)

\* C3: for every tag in 0..255 and every payload, the bytes writeDesc produces
\* are read by readDesc without error, as the same tag and the same payload.
C3_DescRoundTrip ==
    (call.fn = "readDesc" /\ Pristine("writeDesc"))
    => /\ call.err = ErrNil
       /\ call.tag = origin.tag
       /\ call.data = origin.data

RECURSIVE Groups128(_)
\* the 7-bit groups of n, most significant first, none for 0
Groups128(n) == IF n = 0 THEN <<>> ELSE Groups128(n \div 128) \o <<n % 128>>

\* the minimal big-endian base-128 form of n: the continuation bit on every
\* byte but the last
MinimalBigEndian128(n) ==
    LET g == Groups128(n)
    IN  [k \in 1..Len(g) |-> IF k < Len(g) THEN g[k] + 128 ELSE g[k]]

\* C4: writeDesc emits the payload length as the minimal big-endian base-128
\* sequence, most significant group first (nothing for 0, 0x7F for 127,
\* 0x81 0x00 for 128).
C4_LengthBigEndian ==
    Pristine("writeDesc")
    => SubSeq(stream, 2, Len(stream) - Len(origin.data))
            = MinimalBigEndian128(Len(origin.data))

\* C5: an AAC LC config given by a sample rate that is entry i of the
\* sample-rate table and a channel count that is entry j of the channel table,
\* both indices left zero, written by WriteElemStreamDescAAC and read back by
\* ReadElemStreamDescAAC, is read without error as ObjectType 2,
\* SampleRateIndex i and ChannelConfig j (44100 Hz and 2 channels: 4 and 2).
C5_NestedRoundTrip ==
    \A i \in 0..(Len(sampleRateTable) - 1), j \in 0..(Len(chanConfigTable) - 1) :
        (call.fn = "ReadElemStreamDescAAC"
            /\ origin.fn = "WriteElemStreamDescAAC" /\ ~origin.damaged
            /\ origin.config = Config(2, 0, 0, sampleRateTable[i + 1],
                                      chanConfigTable[j + 1]))
        => /\ call.err = ErrNil
           /\ call.config.ObjectType = 2
           /\ call.config.SampleRateIndex = i
           /\ call.config.ChannelConfig = j

C5_Witness ==
    /\ call.fn = "ReadElemStreamDescAAC"
    /\ origin.fn = "WriteElemStreamDescAAC" /\ ~origin.damaged
    /\ origin.config = Config(2, 0, 0, 44100, 2)
    /\ call.err = ErrNil
    /\ call.config.ObjectType = 2
    /\ call.config.SampleRateIndex = 4
    /\ call.config.ChannelConfig = 2

\* C6: of a 7-byte input ReadADTSHeader returns the two bits at bit offset 16
\* plus one, the four bits after them, the three bits after the private bit
\* and the thirteen bits at bit offset 30, whatever the other bits are.
C6_ADTSFields ==
    (call.fn = "ReadADTSHeader" /\ Len(stream) = 7)
    => /\ call.adts.objectType = (stream[3] \div 64) + 1
       /\ call.adts.sampleRateIndex = (stream[3] \div 4) % 16
       /\ call.adts.chanConfig = (stream[3] % 2) * 4 + (stream[4] \div 64)
       /\ call.adts.frameLength =
            (stream[4] % 4) * 2048 + stream[5] * 8 + (stream[6] \div 32)

\* the header of the example, with a sync word that is not all ones
C6_Witness ==
    /\ call.fn = "ReadADTSHeader"
    /\ stream = <<0, 0, 80, 128, 1, 224, 0>>
    /\ call.adts = [objectType |-> 2, sampleRateIndex |-> 4,
                    chanConfig |-> 2, frameLength |-> 15]

\* C7: when the first descriptor of the input has a tag other than 3,
\* ReadElemStreamDesc fails with the ES descriptor tag error, returns no
\* decoder config and leaves the reader right after that descriptor.
C7_OuterTagMismatch ==
    call.fn = "ReadElemStreamDesc"
    => \A d \in {readDesc(stream, 0)} :
        (d.err = ErrNil /\ d.tag # MP4ESDescrTag)
        => /\ call.err = ErrESDescr
           /\ call.data = <<>>
           /\ call.i = d.i

\* a descriptor with another tag, followed by input that stays unread
C7_Witness ==
    /\ call.fn = "ReadElemStreamDesc"
    /\ stream[1] # MP4ESDescrTag
    /\ call.err = ErrESDescr
    /\ call.data = <<>>
    /\ call.i < Len(stream)

\* the tag an error of ReadElemStreamDesc names, 0 when it names none
TagNamedBy(err) ==
    IF err = "MP4ESDescrTag not found" THEN MP4ESDescrTag
    ELSE IF err = "MP4DecConfigDescrTag not found" THEN MP4DecConfigDescrTag
    ELSE IF err = "MP4DecSpecificDescrTag not found" THEN MP4DecSpecificDescrTag
    ELSE 0

\* C8: a tag mismatch at each of the three levels of ReadElemStreamDesc is
\* reported by an error that names the tag expected at that level: 3 at the
\* outer level, 4 at the second level, 5 at the innermost level.
C8_ErrorNamesExpectedTag ==
    call.fn = "ReadElemStreamDesc"
    => \A d1 \in {readDesc(stream, 0)} :
        /\ (d1.err = ErrNil /\ d1.tag # MP4ESDescrTag)
           => TagNamedBy(call.err) = MP4ESDescrTag
        /\ (d1.err = ErrNil /\ d1.tag = MP4ESDescrTag)
           => \A es \in {readESDesc(d1.data, 0)} :
               es.err = ErrNil
               => \A d2 \in {readDesc(d1.data, es.i)} :
                   /\ (d2.err = ErrNil /\ d2.tag # MP4DecConfigDescrTag)
                      => TagNamedBy(call.err) = MP4DecConfigDescrTag
                   /\ (d2.err = ErrNil /\ d2.tag = MP4DecConfigDescrTag
                            /\ Len(d2.data) >= 13)
                      => \A d3 \in {readDesc(d2.data, 13)} :
                          (d3.err = ErrNil /\ d3.tag # MP4DecSpecificDescrTag)
                          => TagNamedBy(call.err) = MP4DecSpecificDescrTag

\* C9: when ReadMPEG4AudioConfig or ReadElemStreamDescAAC fails, the config
\* it returns is the zero config: it carries no field decoded before the
\* short read.
C9_NoPartialConfig ==
    (call.fn \in {"ReadMPEG4AudioConfig", "ReadElemStreamDescAAC"}
        /\ call.err # ErrNil)
    => call.config = ZeroConfig

\* C10: when fewer bytes follow the length field than the length it declares,
\* readDesc returns an error.
C10_ShortPayloadFails ==
    (call.fn = "readDesc" /\ Len(stream) >= 1)
    => \A l \in {readDescLength(stream, 1, 4, 0)} :
        (l.err = ErrNil /\ Len(stream) - l.i < l.length) => call.err # ErrNil

====
